---------------------------- MODULE Spec2Model ----------------------------
(***************************************************************************)
(* Model of lib/changelog.py: one run of main().  The run reads sys.argv,  *)
(* loads the raw JSON file, writes the result text to the stdout file,     *)
(* walks messages and content blocks collecting changelog lines, and       *)
(* writes the changelog file.  An exception that main() does not catch     *)
(* ends the interpreter with a traceback and exit status 1.                *)
(*                                                                         *)
(* Text is a sequence of one-character strings, so that substring tests,   *)
(* slices, lengths and newlines are computed and not assumed.              *)
(***************************************************************************)
EXTENDS Integers, Sequences, FiniteSets

VARIABLES argc, input, pc, data, changes, msgs, mi, blocks, bi,
          stdoutFile, changelogFile, stderr, exitCode

vars == <<argc, input, pc, data, changes, msgs, mi, blocks, bi,
          stdoutFile, changelogFile, stderr, exitCode>>

---------------------------------------------------------------------------
(* Bounds of the model. *)

\* sys.argv lengths tried: ArgvLen - ArgcSpread .. ArgvLen + ArgcSpread.
ArgcSpread == 1
\* Longest messages array of a drawn document.
MaxMsgs == 2
\* Most content blocks of a drawn document, over all its messages.
MaxBlocks == 2

(* Program constants. *)

\* len(sys.argv) of a correct invocation: script name plus three paths.
ArgvLen == 4
\* Slice bound of cmd[:80].
TruncLen == 80
\* Status of sys.exit(1), and of an interpreter ended by an uncaught exception.
ExitFailure == 1
\* Status when main() returns.
ExitSuccess == 0
\* The process has not exited yet.
Running == -1

---------------------------------------------------------------------------
(* JSON values as json.load builds them, tagged by Python type.  A dict    *)
(* holds the keys the program reads; a key the document does not have is   *)
(* Absent.                                                                 *)

Absent  == [t |-> "absent"]
Null    == [t |-> "null"]
Num(n)  == [t |-> "num", n |-> n]
Str(s)  == [t |-> "str", s |-> s]
List(x) == [t |-> "list", items |-> x]

IsDict(v) == v.t = "dict"
IsStr(v)  == v.t = "str"

EmptyDict == [t |-> "dict"]

\* Whether the dict has the key.
Has(d, key) == key \in DOMAIN d /\ d[key].t # "absent"

\* dict.get(key, default)
Get(d, key, default) == IF Has(d, key) THEN d[key] ELSE default

\* The keys the model's dicts can hold.
AllKeys == <<"result", "messages", "role", "content", "type", "name", "input",
             "file_path", "new_string", "command", "notebook_path">>

\* The keys of a dict, as the strings a for loop over the dict visits (each
\* key stands as a one-element text: the program only asks a key for .get).
Keys(d) ==
    LET present(k) == Has(d, k)
    IN  [i \in 1..Len(SelectSeq(AllKeys, present)) |->
            Str(<<SelectSeq(AllKeys, present)[i]>>)]

\* Python truth value of a JSON value (the `or` of line 29).
Truthy(v) ==
    CASE v.t = "null" -> FALSE
      [] v.t = "num"  -> v.n # 0
      [] v.t = "str"  -> v.s # <<>>
      [] v.t = "list" -> v.items # <<>>
      [] v.t = "dict" -> Keys(v) # <<>>
      [] OTHER        -> TRUE

\* Whether iter(v) succeeds: a number or None is not iterable.
Iterable(v) == v.t \in {"list", "str", "dict"}

\* The elements a for loop over v visits: the items of a list, the
\* characters of a string, the keys of a dict.
Elements(v) ==
    CASE v.t = "list" -> v.items
      [] v.t = "str"  -> [i \in 1..Len(v.s) |-> Str(<<v.s[i]>>)]
      [] v.t = "dict" -> Keys(v)
      [] OTHER        -> <<>>

---------------------------------------------------------------------------
(* Text. *)

sAssistant    == <<"a","s","s","i","s","t","a","n","t">>
sUser         == <<"u","s","e","r">>
sToolUse      == <<"t","o","o","l","_","u","s","e">>
sText         == <<"t","e","x","t">>
sEdit         == <<"E","d","i","t">>
sWrite        == <<"W","r","i","t","e">>
sBash         == <<"B","a","s","h">>
sNotebookEdit == <<"N","o","t","e","b","o","o","k","E","d","i","t">>
sQuestion     == <<"?">>
NL            == <<"\n">>
Sentinel      == <<"(","n","o"," ","f","i","l","e"," ","c","h","a","n","g","e","s",")">>

\* `w in s` for strings.
Contains(s, w) ==
    \E i \in 1..(Len(s) - Len(w) + 1) : SubSeq(s, i, i + Len(w) - 1) = w

\* s[:n]
Prefix(s, n) == SubSeq(s, 1, IF Len(s) < n THEN Len(s) ELSE n)

Digit(d) == <<"0","1","2","3","4","5","6","7","8","9">>[d + 1]

RECURSIVE Decimal(_)
\* str(n) of a natural number.
Decimal(n) == IF n < 10 THEN <<Digit(n)>> ELSE Decimal(n \div 10) \o <<Digit(n % 10)>>

---------------------------------------------------------------------------
(* The changelog line of one tool_use block (lines 41-59).                 *)

sEDIT     == <<"E","D","I","T"," ">>
sColon    == <<":"," ">>
sChars    == <<" ","c","h","a","r","s">>
sWRITE    == <<"W","R","I","T","E"," ">>
sNOTEBOOK == <<"N","O","T","E","B","O","O","K"," ">>
sDELETE   == <<"D","E","L","E","T","E"," ","v","i","a"," ","b","a","s","h",":"," ">>
sFS       == <<"F","S",":"," ">>

\* The words of line 53 and of line 55.
DeleteWords == { <<"r","m"," ">>, <<"r","m"," ","-">>, <<"r","m","d","i","r">>,
                 <<"u","n","l","i","n","k">> }
FsWords     == { <<"m","v"," ">>, <<"c","p"," ">>, <<"m","k","d","i","r">> }

\* str(v) as an f-string inserts it, for the values the documents hold in
\* file_path, notebook_path and command: strings, numbers and null.
Format(v) ==
    CASE v.t = "str"  -> v.s
      [] v.t = "num"  -> Decimal(v.n)
      [] OTHER        -> <<"N","o","n","e">>

\* Whether len(v) is defined.
HasLen(v) == v.t \in {"str", "list", "dict"}

\* len(v)
PyLen(v) == Len(Elements(v))

\* A step's outcome: it raised, or it appended these lines (none or one).
Raise       == [raised |-> TRUE,  lines |-> <<>>]
Lines(ls)   == [raised |-> FALSE, lines |-> ls]

\* Lines 44-47.
EditLine(inp) ==
    IF ~IsDict(inp) THEN Raise
    ELSE LET fp == Get(inp, "file_path", Str(sQuestion))
             ns == Get(inp, "new_string", Str(<<>>))
         IN  IF ~HasLen(ns) THEN Raise
             ELSE Lines(<< sEDIT \o Format(fp) \o sColon \o Decimal(PyLen(ns)) \o sChars >>)

\* Lines 48-50.
WriteLine(inp) ==
    IF ~IsDict(inp) THEN Raise
    ELSE Lines(<< sWRITE \o Format(Get(inp, "file_path", Str(sQuestion))) >>)

\* BashLine with the test of line 55 made before the test of line 53.
BashLineFsFirst(inp) ==
    IF ~IsDict(inp) THEN Raise
    ELSE LET cmd == Get(inp, "command", Str(<<>>))
         IN  IF ~IsStr(cmd) THEN Raise
             ELSE IF \E w \in FsWords : Contains(cmd.s, w)
                  THEN Lines(<< sFS \o Prefix(cmd.s, TruncLen) >>)
             ELSE IF \E w \in DeleteWords : Contains(cmd.s, w)
                  THEN Lines(<< sDELETE \o Prefix(cmd.s, TruncLen) >>)
             ELSE Lines(<<>>)

\* Lines 51-56.  `w in cmd` raises unless cmd is a string (the documents
\* hold no list or dict as a command).
BashLine(inp) ==
    IF ~IsDict(inp) THEN Raise
    ELSE LET cmd == Get(inp, "command", Str(<<>>))
         IN  IF ~IsStr(cmd) THEN Raise
             ELSE IF \E w \in DeleteWords : Contains(cmd.s, w)
                  THEN Lines(<< sDELETE \o Prefix(cmd.s, TruncLen) >>)
             ELSE IF \E w \in FsWords : Contains(cmd.s, w)
                  THEN Lines(<< sFS \o Prefix(cmd.s, TruncLen) >>)
             ELSE Lines(<<>>)

\* Lines 57-59.
NotebookLine(inp) ==
    IF ~IsDict(inp) THEN Raise
    ELSE Lines(<< sNOTEBOOK \o Format(Get(inp, "notebook_path", Str(sQuestion))) >>)

\* BlockOutcome without the test of line 39.
BlockOutcomeAnyType(block) ==
    IF ~IsDict(block) THEN Raise
    ELSE LET tool == Get(block, "name", Str(<<>>))
             inp  == Get(block, "input", EmptyDict)
         IN  CASE tool = Str(sEdit)         -> EditLine(inp)
               [] tool = Str(sWrite)        -> WriteLine(inp)
               [] tool = Str(sBash)         -> BashLine(inp)
               [] tool = Str(sNotebookEdit) -> NotebookLine(inp)
               [] OTHER                     -> Lines(<<>>)

\* Lines 39-59: the body of the inner loop for one element of content.
BlockOutcome(block) ==
    IF ~IsDict(block) THEN Raise
    ELSE IF Get(block, "type", Null) # Str(sToolUse) THEN Lines(<<>>)
    ELSE LET tool == Get(block, "name", Str(<<>>))
             inp  == Get(block, "input", EmptyDict)
         IN  CASE tool = Str(sEdit)         -> EditLine(inp)
               [] tool = Str(sWrite)        -> WriteLine(inp)
               [] tool = Str(sBash)         -> BashLine(inp)
               [] tool = Str(sNotebookEdit) -> NotebookLine(inp)
               [] OTHER                     -> Lines(<<>>)

\* Lines 61-66: the text of the changelog file.
RECURSIVE JoinLines(_)
JoinLines(ls) == IF ls = <<>> THEN <<>> ELSE Head(ls) \o NL \o JoinLines(Tail(ls))

\* ChangelogText with the sentinel written after the collected lines too.
ChangelogTextSentinelLast(ls) == JoinLines(ls) \o Sentinel \o NL

ChangelogText(ls) == IF ls # <<>> THEN JoinLines(ls) ELSE Sentinel \o NL

---------------------------------------------------------------------------
(* The files.  A path names no file, or a file with its text.              *)

\* `written` records that this run opened the path for writing.
NoFile     == [exists |-> FALSE, written |-> FALSE, text |-> <<>>]
\* What open(path, "w") followed by write(txt) leaves.
File(txt)  == [exists |-> TRUE,  written |-> TRUE,  text |-> txt]
\* What an earlier run may have left at an output path.
OldFile    == [exists |-> TRUE,  written |-> FALSE, text |-> <<"o","l","d","\n">>]

---------------------------------------------------------------------------
(* Documents.                                                              *)

Inp(fp, ns, cmd, np) ==
    [t |-> "dict", file_path |-> fp, new_string |-> ns, command |-> cmd,
     notebook_path |-> np]
Block(ty, nm, inp) == [t |-> "dict", type |-> ty, name |-> nm, input |-> inp]
ToolUse(nm, inp)   == Block(Str(sToolUse), Str(nm), inp)
Msg(role, content) == [t |-> "dict", role |-> role, content |-> content]
Doc(result, messages) == [t |-> "dict", result |-> result, messages |-> messages]

EditOf(fp, ns)  == ToolUse(sEdit, Inp(fp, ns, Absent, Absent))
WriteOf(fp)     == ToolUse(sWrite, Inp(fp, Absent, Absent, Absent))
BashOf(cmd)     == ToolUse(sBash, Inp(Absent, Absent, cmd, Absent))
NotebookOf(np)  == ToolUse(sNotebookEdit, Inp(Absent, Absent, Absent, np))

RECURSIVE SeqsOf(_, _)
\* The sequences of length n over S.
SeqsOf(S, n) ==
    IF n = 0 THEN {<<>>}
    ELSE LET shorter == SeqsOf(S, n - 1) IN {<<x>> \o s : x \in S, s \in shorter}

\* A menu M names the values a document is drawn from:
\*   M.blocks    elements of a content array
\*   M.contents  values of content that are not arrays of M.blocks
\*   M.roles     values of role
\*   M.others    elements of messages that are not objects
\*   M.messages  values of messages that are not arrays
\*   M.results   values of result
\*   M.tops      top-level documents that are not objects
\*   M.files     what the two output paths hold before the run

\* The messages of M holding exactly j blocks.
MsgsWith(M, j) ==
    { Msg(r, List(c)) : r \in M.roles, c \in SeqsOf(M.blocks, j) }
    \cup (IF j = 0
          THEN M.others \cup { Msg(r, c) : r \in M.roles, c \in M.contents }
          ELSE {})

RECURSIVE DrawMessages(_, _, _, _, _)
\* input is a document of result r whose messages array is ms followed by at
\* most m more elements holding at most k blocks in all.
DrawMessages(M, r, ms, m, k) ==
    \/ input = [kind |-> "json", doc |-> Doc(r, List(ms))]
    \/ /\ m > 0
       /\ \E j \in 0..k : \E x \in MsgsWith(M, j) :
              DrawMessages(M, r, Append(ms, x), m - 1, k - j)

\* What the input path holds: nothing, something open() refuses, text that is
\* not JSON, bytes that are not text in the locale's encoding, or a document
\* of M with at most MaxMsgs messages and MaxBlocks blocks.
DrawInput(M) ==
    \/ \E k \in {"missing", "unreadable", "notjson", "notutf8"} :
           input = [kind |-> k, doc |-> Null]
    \/ \E d \in M.tops : input = [kind |-> "json", doc |-> d]
    \/ \E r \in M.results :
           \/ \E ms \in M.messages : input = [kind |-> "json", doc |-> Doc(r, ms)]
           \/ DrawMessages(M, r, <<>>, MaxMsgs, MaxBlocks)

---------------------------------------------------------------------------
(* One run of main().                                                      *)

InitOn(M) ==
    /\ DrawInput(M)
    /\ argc \in (ArgvLen - ArgcSpread)..(ArgvLen + ArgcSpread)
    /\ \E f \in M.files : stdoutFile = f /\ changelogFile = f
    /\ pc = "args"
    /\ data = Null
    /\ changes = <<>>
    /\ msgs = <<>>
    /\ mi = 0
    /\ blocks = <<>>
    /\ bi = 0
    /\ stderr = "none"
    /\ exitCode = Running

\* sys.exit(1), main() returning, and an exception nothing catches.
Exit(code, err) == pc' = "exited" /\ exitCode' = code /\ stderr' = err
Uncaught        == Exit(ExitFailure, "traceback")

\* CheckArgs with the test of line 12 written as "too few arguments".
CheckArgsTooFewOnly ==
    /\ pc = "args"
    /\ IF argc < ArgvLen
       THEN Exit(ExitFailure, "usage")
       ELSE pc' = "load" /\ UNCHANGED <<exitCode, stderr>>
    /\ UNCHANGED <<argc, input, data, changes, msgs, mi, blocks, bi,
                   stdoutFile, changelogFile>>

\* Lines 12-16.
CheckArgs ==
    /\ pc = "args"
    /\ IF argc # ArgvLen
       THEN Exit(ExitFailure, "usage")
       ELSE pc' = "load" /\ UNCHANGED <<exitCode, stderr>>
    /\ UNCHANGED <<argc, input, data, changes, msgs, mi, blocks, bi,
                   stdoutFile, changelogFile>>

\* The exceptions of open() and json.load() that line 21 names.
Caught(kind) == kind \in {"missing", "unreadable", "notjson"}

\* Lines 18-26.
LoadInput ==
    /\ pc = "load"
    /\ IF input.kind = "json"
       THEN /\ data' = input.doc
            /\ pc' = "result"
            /\ UNCHANGED <<stdoutFile, changelogFile, exitCode, stderr>>
       ELSE IF Caught(input.kind)
       THEN /\ stdoutFile' = File(<<>>)
            /\ changelogFile' = File(Sentinel \o NL)
            /\ Exit(ExitSuccess, "warning")
            /\ UNCHANGED data
       ELSE /\ Uncaught
            /\ UNCHANGED <<data, stdoutFile, changelogFile>>
    /\ UNCHANGED <<argc, input, changes, msgs, mi, blocks, bi>>

\* ResultOf with a line terminator added, as print() would.
ResultOfWithNewline(d) ==
    LET r == Get(d, "result", Str(<<>>))
    IN  IF Truthy(r) THEN (IF IsStr(r) THEN Str(r.s \o NL) ELSE r) ELSE Str(<<>>)

\* Line 29: data.get("result", "") or "".
ResultOf(d) ==
    LET r == Get(d, "result", Str(<<>>)) IN IF Truthy(r) THEN r ELSE Str(<<>>)

\* Lines 29-31: open() creates or truncates the file before write() sees
\* the value.
WriteResult ==
    /\ pc = "result"
    /\ IF ~IsDict(data)
       THEN Uncaught /\ UNCHANGED stdoutFile
       ELSE IF ~IsStr(ResultOf(data))
       THEN Uncaught /\ stdoutFile' = File(<<>>)
       ELSE /\ stdoutFile' = File(ResultOf(data).s)
            /\ pc' = "messages"
            /\ UNCHANGED <<exitCode, stderr>>
    /\ UNCHANGED <<argc, input, data, changes, msgs, mi, blocks, bi, changelogFile>>

\* Lines 34-35: changes = [] and the start of the loop over messages.
EnterMessages ==
    /\ pc = "messages"
    /\ LET ms == Get(data, "messages", List(<<>>))
       IN  IF ~Iterable(ms)
           THEN Uncaught /\ UNCHANGED <<msgs, mi>>
           ELSE /\ msgs' = Elements(ms)
                /\ mi' = 1
                /\ pc' = "msg"
                /\ UNCHANGED <<exitCode, stderr>>
    /\ changes' = <<>>
    /\ UNCHANGED <<argc, input, data, blocks, bi, stdoutFile, changelogFile>>

\* Lines 35-38: the next message, its role, and the start of the loop over
\* its content; the loop's end leads to line 61.
NextMessage ==
    /\ pc = "msg"
    /\ IF mi > Len(msgs)
       THEN pc' = "changelog" /\ UNCHANGED <<mi, blocks, bi, exitCode, stderr>>
       ELSE LET msg == msgs[mi]
            IN  IF ~IsDict(msg)
                THEN Uncaught /\ UNCHANGED <<mi, blocks, bi>>
                ELSE IF Get(msg, "role", Null) # Str(sAssistant)
                THEN /\ mi' = mi + 1
                     /\ UNCHANGED <<pc, blocks, bi, exitCode, stderr>>
                ELSE LET content == Get(msg, "content", List(<<>>))
                     IN  IF ~Iterable(content)
                         THEN Uncaught /\ UNCHANGED <<mi, blocks, bi>>
                         ELSE /\ blocks' = Elements(content)
                              /\ bi' = 1
                              /\ pc' = "block"
                              /\ UNCHANGED <<mi, exitCode, stderr>>
    /\ UNCHANGED <<argc, input, data, changes, msgs, stdoutFile, changelogFile>>

\* NextBlock with the line put at the front of changes.
NextBlockPrepend ==
    /\ pc = "block"
    /\ IF bi > Len(blocks)
       THEN /\ pc' = "msg"
            /\ mi' = mi + 1
            /\ UNCHANGED <<bi, changes, exitCode, stderr>>
       ELSE LET out == BlockOutcome(blocks[bi])
            IN  IF out.raised
                THEN Uncaught /\ UNCHANGED <<mi, bi, changes>>
                ELSE /\ changes' = out.lines \o changes
                     /\ bi' = bi + 1
                     /\ UNCHANGED <<pc, mi, exitCode, stderr>>
    /\ UNCHANGED <<argc, input, data, msgs, blocks, stdoutFile, changelogFile>>

\* Lines 38-59: the next content block; the loop's end leads to the next
\* message.
NextBlock ==
    /\ pc = "block"
    /\ IF bi > Len(blocks)
       THEN /\ pc' = "msg"
            /\ mi' = mi + 1
            /\ UNCHANGED <<bi, changes, exitCode, stderr>>
       ELSE LET out == BlockOutcome(blocks[bi])
            IN  IF out.raised
                THEN Uncaught /\ UNCHANGED <<mi, bi, changes>>
                ELSE /\ changes' = changes \o out.lines
                     /\ bi' = bi + 1
                     /\ UNCHANGED <<pc, mi, exitCode, stderr>>
    /\ UNCHANGED <<argc, input, data, msgs, blocks, stdoutFile, changelogFile>>

\* Lines 61-66, and main() returning.
WriteChangelog ==
    /\ pc = "changelog"
    /\ changelogFile' = File(ChangelogText(changes))
    /\ Exit(ExitSuccess, stderr)
    /\ UNCHANGED <<argc, input, data, changes, msgs, mi, blocks, bi, stdoutFile>>

Next ==
    \/ CheckArgs
    \/ LoadInput
    \/ WriteResult
    \/ EnterMessages
    \/ NextMessage
    \/ NextBlock
    \/ WriteChangelog

---------------------------------------------------------------------------
(* The documents of each specification.                                    *)

sA    == <<"a",".","p","y">>
sB    == <<"b">>
sRead == <<"R","e","a","d">>
sOk   == <<"o","k">>

\* Value shapes at every level of the document: objects, arrays, strings,
\* numbers, null and missing keys where the program reads each field.
ShapeMenu ==
    [ blocks   |-> { WriteOf(Str(sA)), ToolUse(sWrite, Null), ToolUse(sRead, Null),
                     Str(<<"x">>) },
      contents |-> { Absent, Null, Str(<<"h","i">>), EmptyDict },
      roles    |-> { Str(sAssistant), Str(sUser), Absent },
      others   |-> { Str(<<"m">>) },
      messages |-> { Absent, Null, Str(<<"a","b">>), EmptyDict },
      results  |-> { Absent, Null, Str(sOk), Num(5) },
      tops     |-> { List(<<>>), Num(1) },
      files    |-> { NoFile, OldFile } ]

Init == InitOn(ShapeMenu)
Spec == Init /\ [][Next]_vars

\* Values of result, around documents whose traversal ends either way.
ResultMenu ==
    [ blocks   |-> { WriteOf(Str(sA)), ToolUse(sRead, Null) },
      contents |-> { Null },
      roles    |-> { Str(sAssistant), Str(sUser) },
      others   |-> { },
      messages |-> { Absent, Null },
      results  |-> { Absent, Null, Str(<<>>), Str(sOk), Str(<<" ","o","k"," ","\n">>),
                     Str(<<"a","\n","b">>), Num(0), Num(5), List(<<>>), EmptyDict },
      tops     |-> { List(<<>>) },
      files    |-> { NoFile, OldFile } ]

InitResult == InitOn(ResultMenu)
SpecResult == InitResult /\ [][Next]_vars

sNb      == <<"n",".","i","p","y","n","b">>
sTwelve  == <<"h","e","l","l","o"," ","w","o","r","l","d","!">>
sRmA     == <<"r","m"," ","a">>
sLs      == <<"l","s">>
sLowerWrite == <<"w","r","i","t","e">>

\* Well-formed transcripts: every tool of the table, a tool of no line, an
\* unknown tool and a text block, in assistant and user messages.
ToolMenu ==
    [ blocks   |-> { EditOf(Str(sA), Str(sTwelve)), ToolUse(sEdit, Absent),
                     WriteOf(Str(sB)), NotebookOf(Str(sNb)),
                     BashOf(Str(sRmA)), BashOf(Str(sLs)),
                     ToolUse(sRead, Inp(Str(sA), Absent, Absent, Absent)),
                     Block(Str(sText), Str(sWrite), Inp(Str(sA), Absent, Absent, Absent)) },
      contents |-> { Absent },
      roles    |-> { Str(sAssistant), Str(sUser) },
      others   |-> { },
      messages |-> { Absent },
      results  |-> { Str(sOk) },
      tops     |-> { },
      files    |-> { NoFile } ]

InitTools == InitOn(ToolMenu)
SpecTools == InitTools /\ [][Next]_vars

\* Blocks and messages the traversal is to pass over, with inputs of any
\* shape, beside one recognized block and one block that is no object.
SkipMenu ==
    [ blocks   |-> { WriteOf(Str(sA)),
                     ToolUse(sLowerWrite, Null),
                     ToolUse(sRead, Num(7)),
                     Block(Str(sToolUse), Absent, Null),
                     Block(Absent, Str(sWrite), Null),
                     Block(Str(sText), Str(sEdit), Num(2)),
                     Str(<<"x">>) },
      contents |-> { Null },
      roles    |-> { Str(sAssistant), Str(sUser), Absent },
      others   |-> { },
      messages |-> { },
      results  |-> { Str(sOk) },
      tops     |-> { },
      files    |-> { NoFile } ]

InitSkip == InitOn(SkipMenu)
SpecSkip == InitSkip /\ [][Next]_vars

\* n filler characters.
Pad(n) == [i \in 1..n |-> "x"]

\* Bash commands: each word of the two rules, none, both, a word that is
\* part of a longer one, and words before, across and after character 80.
BashCommands ==
    { sRmA, <<"r","m">>, <<"r","m","d","i","r"," ","d">>, <<"u","n","l","i","n","k"," ","f">>,
      <<"m","v"," ","a">>, <<"c","p"," ","a">>, <<"m","k","d","i","r"," ","d">>, sLs,
      <<"f","a","r","m"," ","x">>,
      <<"m","v"," ","a",";","r","m"," ","b">>,
      <<"r","m"," ","a","\n","b">>,
      Pad(TruncLen) \o <<"r","m"," ">>,
      Pad(TruncLen - 2) \o <<"m","v"," ","a">>,
      Pad(TruncLen - 4) \o sRmA,
      Pad(TruncLen - 3) \o <<"c","p"," ","a">> }

BashMenu ==
    [ blocks   |-> { BashOf(Str(c)) : c \in BashCommands } \cup { ToolUse(sBash, Absent) },
      contents |-> { },
      roles    |-> { Str(sAssistant) },
      others   |-> { },
      messages |-> { },
      results  |-> { Str(sOk) },
      tops     |-> { },
      files    |-> { NoFile } ]

InitBash == InitOn(BashMenu)
SpecBash == InitBash /\ [][Next]_vars

---------------------------------------------------------------------------
(* Claims.                                                                 *)

Exited    == pc = "exited"
\* The run had three arguments and json.load returned a document.
Parsed    == argc = 4 /\ input.kind = "json"
SentinelFile == [exists |-> TRUE, written |-> TRUE,
                 text |-> <<"(","n","o"," ","f","i","l","e"," ",
                            "c","h","a","n","g","e","s",")","\n">>]
EmptyFile == [exists |-> TRUE, written |-> TRUE, text |-> <<>>]

\* C7: a run whose argument count is not three exits with status 1 after
\* the usage message, never reads the input and never opens either output
\* path for writing.
C7_UsageError ==
    argc # 4 =>
        /\ pc \in {"args", "exited"}
        /\ data = Null
        /\ ~stdoutFile.written /\ ~changelogFile.written
        /\ Exited => exitCode = 1 /\ stderr = "usage"

C7_Witness ==
    Exited /\ argc = 5 /\ input.kind = "json" /\ stdoutFile = OldFile /\ exitCode = 1

\* C2: when the input cannot be opened or cannot be parsed, a run with three
\* arguments ends with status 0, an empty result file and a changelog file
\* holding the sentinel line alone.
C2_ParseFailureDegrades ==
    (Exited /\ argc = 4 /\ input.kind # "json") =>
        exitCode = 0 /\ stdoutFile = EmptyFile /\ changelogFile = SentinelFile

\* C3: no run ends with one output file written and the other not.
C3_NoPartialFailure ==
    Exited => (stdoutFile.written <=> changelogFile.written)

\* The document is an object whose result can be written.
WritableTop(d) ==
    IsDict(d) /\ (~Has(d, "result") \/ d.result.t \in {"null", "str"})
IsList(v) == v.t = "list"

\* C4: a messages value that is missing or no array, and a content value that
\* is missing or no array, count as empty: the run ends with status 0 and,
\* nothing else being classified, with the sentinel changelog.
C4_NonArrayIsEmpty ==
    (Exited /\ Parsed /\ WritableTop(input.doc)) =>
        LET ms == input.doc.messages
        IN  /\ ~IsList(ms) => exitCode = 0 /\ changelogFile = SentinelFile
            /\ (IsList(ms) /\ \A i \in 1..Len(ms.items) :
                    IsDict(ms.items[i]) /\ ~IsList(ms.items[i].content))
                => exitCode = 0 /\ changelogFile = SentinelFile

\* C6: on a document that is an object, the result file holds the result
\* string exactly when result is a string, and nothing when result is absent
\* or null, whatever the traversal does afterwards.
C6_ResultVerbatim ==
    (Exited /\ Parsed /\ IsDict(input.doc)) =>
        LET r == input.doc.result
        IN  /\ r.t = "str" => stdoutFile = [exists |-> TRUE, written |-> TRUE, text |-> r.s]
            /\ r.t \in {"absent", "null"} => stdoutFile = EmptyFile

C6_Witness ==
    /\ Exited /\ Parsed /\ IsDict(input.doc)
    /\ input.doc.result = Str(<<" ","o","k"," ","\n">>)
    /\ stdoutFile.text = <<" ","o","k"," ","\n">>
    /\ exitCode = 0

---------------------------------------------------------------------------
(* The changelog as the specification describes it, computed from the      *)
(* document alone.                                                         *)

\* The array a field holds; a missing field holds none.
ItemsOf(v) == IF v.t = "list" THEN v.items ELSE <<>>
\* The text of a field, or its documented default.
TextOf(d, key, default) == IF Has(d, key) THEN d[key].s ELSE default
InputOf(b) == IF Has(b, "input") THEN b.input ELSE EmptyDict
First80(s) == IF Len(s) <= 80 THEN s ELSE SubSeq(s, 1, 80)
HasWord(s, w) == \E i \in 1..Len(s) : i + Len(w) - 1 <= Len(s) /\ SubSeq(s, i, i + Len(w) - 1) = w

\* The Bash sub-rule: rule 1, else rule 2, else no line.
RuleLine(cmd) ==
    IF \/ HasWord(cmd, <<"r","m"," ">>) \/ HasWord(cmd, <<"r","m"," ","-">>)
       \/ HasWord(cmd, <<"r","m","d","i","r">>) \/ HasWord(cmd, <<"u","n","l","i","n","k">>)
    THEN << <<"D","E","L","E","T","E"," ","v","i","a"," ","b","a","s","h",":"," ">> \o First80(cmd) >>
    ELSE IF \/ HasWord(cmd, <<"m","v"," ">>) \/ HasWord(cmd, <<"c","p"," ">>)
            \/ HasWord(cmd, <<"m","k","d","i","r">>)
    THEN << <<"F","S",":"," ">> \o First80(cmd) >>
    ELSE <<>>

\* The table of per-tool line formats, for a block of an assistant message.
TableLine(b) ==
    IF b.type # Str(sToolUse) THEN <<>>
    ELSE CASE b.name = Str(sEdit) ->
                << <<"E","D","I","T"," ">> \o TextOf(InputOf(b), "file_path", <<"?">>)
                   \o <<":"," ">> \o Decimal(Len(TextOf(InputOf(b), "new_string", <<>>)))
                   \o <<" ","c","h","a","r","s">> >>
           [] b.name = Str(sWrite) ->
                << <<"W","R","I","T","E"," ">> \o TextOf(InputOf(b), "file_path", <<"?">>) >>
           [] b.name = Str(sNotebookEdit) ->
                << <<"N","O","T","E","B","O","O","K"," ">>
                   \o TextOf(InputOf(b), "notebook_path", <<"?">>) >>
           [] b.name = Str(sBash) -> RuleLine(TextOf(InputOf(b), "command", <<>>))
           [] OTHER -> <<>>

RECURSIVE BlockLines(_)
BlockLines(bs) == IF bs = <<>> THEN <<>> ELSE TableLine(Head(bs)) \o BlockLines(Tail(bs))

RECURSIVE MessageLines(_)
MessageLines(ms) ==
    IF ms = <<>> THEN <<>>
    ELSE (IF Head(ms).role = Str(sAssistant)
          THEN BlockLines(ItemsOf(Head(ms).content)) ELSE <<>>)
         \o MessageLines(Tail(ms))

\* The lines of the document the run loaded, in traversal order.
ExpectedLines == MessageLines(ItemsOf(input.doc.messages))

RECURSIVE Terminated(_)
\* Each line followed by a newline.
Terminated(ls) ==
    IF ls = <<>> THEN <<>> ELSE Head(ls) \o <<"\n">> \o Terminated(Tail(ls))

\* The number of newline characters of a text: its newline-terminated lines.
LineCount(txt) == Cardinality({i \in 1..Len(txt) : txt[i] = "\n"})

\* C1: the changelog file of a parsed transcript holds the lines of its
\* recognized blocks in traversal order (messages in array order, blocks in
\* array order), each once: the k-th line is the line of the k-th block.
C1_TraversalOrder ==
    (Exited /\ Parsed) =>
        /\ exitCode = 0
        /\ changelogFile.written
        /\ ExpectedLines # <<>> => changelogFile.text = Terminated(ExpectedLines)
        /\ ExpectedLines = <<>> => changelogFile = SentinelFile

C1_Witness ==
    /\ Exited /\ Parsed
    /\ input.doc.messages =
         List(<< Msg(Str(sAssistant), List(<< WriteOf(Str(sB)) >>)),
                 Msg(Str(sAssistant), List(<< EditOf(Str(sA), Str(sTwelve)) >>)) >>)
    /\ changelogFile.text =
         <<"W","R","I","T","E"," ","b","\n">> \o
         <<"E","D","I","T"," ","a",".","p","y",":"," ","1","2"," ","c","h","a","r","s","\n">>

\* C5: after the traversal of a parsed document the changelog file is the
\* sentinel line alone exactly when no entry was collected, and otherwise
\* the collected lines, each newline-terminated, with no sentinel after them.
C5_SentinelIffEmpty ==
    (Exited /\ Parsed) =>
        /\ changelogFile.written
        /\ changelogFile = SentinelFile <=> changes = <<>>
        /\ changes = <<>> <=> ExpectedLines = <<>>
        /\ changes # <<>> => changelogFile.text = Terminated(changes)

C5_Witness ==
    /\ Exited /\ Parsed
    /\ input.doc.messages =
         List(<< Msg(Str(sUser), List(<< WriteOf(Str(sB)) >>)),
                 Msg(Str(sAssistant), List(<< BashOf(Str(sLs)) >>)) >>)
    /\ changelogFile = SentinelFile

\* The three conditions under which a block yields a line.
Qualifies(msg, block) ==
    /\ IsDict(msg) /\ msg.role = Str(sAssistant)
    /\ IsDict(block) /\ block.type = Str(sToolUse)
    /\ block.name \in {Str(sEdit), Str(sWrite), Str(sBash), Str(sNotebookEdit)}

\* C8: a step adds a line only for a tool_use block named Edit, Write, Bash
\* or NotebookEdit of an assistant message; a block of another type or name
\* is passed over without a line and without an error whatever its input,
\* and a message of another role is passed over whole.
C8_OnlyQualifyingBlocks ==
    [][ /\ changes' # changes =>
             pc = "block" /\ bi <= Len(blocks) /\ Qualifies(msgs[mi], blocks[bi])
        /\ (pc = "block" /\ bi <= Len(blocks) /\ IsDict(blocks[bi])
              /\ ~Qualifies(msgs[mi], blocks[bi])) =>
             pc' = "block" /\ bi' = bi + 1 /\ changes' = changes /\ exitCode' = exitCode
        /\ (pc = "msg" /\ mi <= Len(msgs) /\ IsDict(msgs[mi])
              /\ msgs[mi].role # Str(sAssistant)) =>
             pc' = "msg" /\ mi' = mi + 1 /\ changes' = changes /\ exitCode' = exitCode
      ]_vars

C8_Witness ==
    /\ Exited /\ Parsed /\ exitCode = 0
    /\ input.doc.messages =
         List(<< Msg(Str(sUser), List(<< WriteOf(Str(sA)) >>)),
                 Msg(Str(sAssistant), List(<< Block(Str(sText), Str(sEdit), Num(2)) >>)) >>)
    /\ changelogFile = SentinelFile

\* C9: each recognized tool call takes exactly one line of the changelog
\* file, whatever its file_path, notebook_path or command holds: a changelog
\* of entries has as many lines as the transcript has recognized calls.
C9_OneLinePerEntry ==
    (Exited /\ Parsed /\ exitCode = 0 /\ ExpectedLines # <<>>) =>
        LineCount(changelogFile.text) = Len(ExpectedLines)

\* C10: the line of an assistant Bash block follows the sub-rule: DELETE when
\* the whole command holds a word of rule 1, else FS when it holds a word of
\* rule 2, else none; the text is the command's first 80 characters, the
\* whole command when it has no more; never two lines for one block.
C10_BashRule ==
    [][ (pc = "block" /\ bi <= Len(blocks) /\ Qualifies(msgs[mi], blocks[bi])
           /\ blocks[bi].name = Str(sBash)) =>
          /\ changes' = changes \o RuleLine(TextOf(InputOf(blocks[bi]), "command", <<>>))
          /\ pc' = "block" /\ bi' = bi + 1
      ]_vars

C10_Witness ==
    /\ pc = "block" /\ bi = 3
    /\ blocks[1] = BashOf(Str(<<"m","v"," ","a",";","r","m"," ","b">>))
    /\ blocks[2] = BashOf(Str(Pad(80) \o <<"r","m"," ">>))
    /\ changes = << <<"D","E","L","E","T","E"," ","v","i","a"," ","b","a","s","h",":"," ">>
                      \o <<"m","v"," ","a",";","r","m"," ","b">>,
                    <<"D","E","L","E","T","E"," ","v","i","a"," ","b","a","s","h",":"," ">>
                      \o Pad(80) >>

=============================================================================
